---- MODULE Spec2Model ----
(***************************************************************************)
(* Model of src/include/OpenImageIO/imagebufalgo_util.h:                   *)
(*   - ImageBufAlgo::parallel_image, the fork/join band splitter;          *)
(*   - the OIIO_DISPATCH_* type-dispatch macros.                           *)
(* parallel_image is modelled as a state machine: the calling thread walks *)
(* through the function, the spawned workers finish in any interleaving.   *)
(* The dispatch macros are modelled as operators, one per macro, applied   *)
(* by one action per public macro.                                         *)
(***************************************************************************)
EXTENDS Integers, Sequences, FiniteSets, TLC

VARIABLES
    \* ---- parallel_image: the call's inputs
    arg_roi,        \* the ROI passed by the caller
    arg_nthreads,   \* the nthreads argument (0 when omitted)
    arg_splitdir,   \* the splitdir argument, after default-argument filling
    splitdir_given, \* TRUE iff the caller wrote the splitdir argument
    attr_threads,   \* the value of the global "threads" attribute
    \* ---- parallel_image: locals of the running call
    pc,             \* "entry", "loop", "join", "returned"
    roi,            \* the by-value parameter roi, overwritten by the loop
    nthreads,       \* the local nthreads
    splitdir,       \* the local splitdir
    roi_begin, roi_end, blocksize, i,
    threads,        \* the thread_group: one record per created thread
    calls,          \* every invocation of f, in hand-out order
    ran,            \* per thread: the ROIs its f has been run on so far
    \* ---- dispatch macros
    dpc,            \* "call", "done"
    macro,          \* which macro the caller expands
    Rtype, Atype, Btype,   \* the TypeDesc arguments (basetype tags)
    R, A, B,        \* the caller's ImageBufs
    R0,             \* R as it was when the macro was entered
    func_ok,        \* whether the specialization that runs succeeds
    func_writes,    \* whether a failing specialization wrote pixels first
    func_msg,       \* the error a failing specialization records
    ret,            \* the macro's ret variable
    Rtmp,           \* the temporary of the fallback, as left at the end
    forwarded,      \* the message the fallback passed to (R).error
    dcalls          \* every specialization invoked, in order

pvars == << arg_roi, arg_nthreads, arg_splitdir, splitdir_given, attr_threads,
            pc, roi, nthreads, splitdir, roi_begin, roi_end, blocksize, i,
            threads, calls, ran >>
dvars == << dpc, macro, Rtype, Atype, Btype, R, A, B, R0, func_ok,
            func_writes, func_msg, ret, Rtmp, forwarded, dcalls >>
vars == << pvars, dvars >>

\* ------------------------------------------------------------------------
\* Bounds of the exploration
\* ------------------------------------------------------------------------
MaxThreads == 4          \* largest requested thread count
MaxAttrThreads == 2      \* largest value of the "threads" attribute

\* Extents tried on the x and y axes, and on the z axis.
ExtentsXY == {0, 1, 5, 16384}
ExtentsZ == {0, 1, 5}
\* Origins (xbegin, ybegin, zbegin) tried.
Origins == { <<0, 0, 0>>, <<-2, 3, 1>> }

\* ------------------------------------------------------------------------
\* enum SplitDir and the ROI value type
\* ------------------------------------------------------------------------
Split_X == 0
Split_Y == 1
Split_Z == 2
Split_Biggest == 3

\* The default argument of splitdir.
DefaultSplitDir == Split_Y

\* The pixels a thread must at least get.
MinPixelsPerThread == 16384

Min(a, b) == IF a < b THEN a ELSE b
Max(a, b) == IF a > b THEN a ELSE b

width(r) == r.xend - r.xbegin
height(r) == r.yend - r.ybegin
depth(r) == r.zend - r.zbegin
npixels(r) == width(r) * height(r) * depth(r)

ROIs == { [xbegin |-> o[1], xend |-> o[1] + w,
           ybegin |-> o[2], yend |-> o[2] + h,
           zbegin |-> o[3], zend |-> o[3] + d,
           chbegin |-> 0, chend |-> 3] :
          o \in Origins, w \in ExtentsXY, h \in ExtentsXY, d \in ExtentsZ }

\* int minmax[6] = { xbegin, xend, ybegin, yend, zbegin, zend }, 0-based.
minmax(r, k) ==
    CASE k = 0 -> r.xbegin [] k = 1 -> r.xend
      [] k = 2 -> r.ybegin [] k = 3 -> r.yend
      [] k = 4 -> r.zbegin [] k = 5 -> r.zend

\* ------------------------------------------------------------------------
\* parallel_image
\* ------------------------------------------------------------------------
\* Mutant: the work-density cap without its "1 +".
ResolvedThreads_NoPlusOne(n, attr, r) ==
    LET t == IF n <= 0 THEN attr ELSE n
    IN  Min(t, npixels(r) \div MinPixelsPerThread)

\* nthreads after "if (nthreads <= 0) getattribute" and the 16k-pixel cap.
ResolvedThreads(n, attr, r) ==
    LET t == IF n <= 0 THEN attr ELSE n
    IN  Min(t, 1 + (npixels(r) \div MinPixelsPerThread))

\* Mutant: ties between width and height go to x.
ResolvedSplitDir_TiesToX(sd, r) ==
    IF sd >= Split_Biggest
    THEN (IF width(r) >= height(r) THEN Split_X ELSE Split_Y)
    ELSE sd

\* "if (splitdir >= Split_Biggest) splitdir = width > height ? X : Y".
ResolvedSplitDir(sd, r) ==
    IF sd >= Split_Biggest
    THEN (IF width(r) > height(r) THEN Split_X ELSE Split_Y)
    ELSE sd

\* Mutant: the block size rounded down instead of up.
BlockSize_RoundedDown(splitlen, n) == Max(1, splitlen \div n)

\* blocksize = max (1, (splitlen + nthreads - 1) / nthreads)
BlockSize(splitlen, n) == Max(1, (splitlen + n - 1) \div n)

\* Mutant: the band's end is not clamped to the end of the ROI.
Band_NoClamp(r, sd, b, e, bs, k) ==
    LET lo == b + k * bs
        hi == lo + bs
    IN  IF sd = Split_Y THEN [r EXCEPT !.ybegin = lo, !.yend = hi]
        ELSE IF sd = Split_X THEN [r EXCEPT !.xbegin = lo, !.xend = hi]
        ELSE [r EXCEPT !.zbegin = lo, !.zend = hi]

\* The band the loop body writes into roi for index k.
Band(r, sd, b, e, bs, k) ==
    LET lo == b + k * bs
        hi == Min(lo + bs, e)
    IN  IF sd = Split_Y THEN [r EXCEPT !.ybegin = lo, !.yend = hi]
        ELSE IF sd = Split_X THEN [r EXCEPT !.xbegin = lo, !.xend = hi]
        ELSE [r EXCEPT !.zbegin = lo, !.zend = hi]

\* "if (roi.?begin >= roi.?end) break".
BandEmpty(r, sd) ==
    IF sd = Split_Y THEN r.ybegin >= r.yend
    ELSE IF sd = Split_X THEN r.xbegin >= r.xend
    ELSE r.zbegin >= r.zend

\* Mutant: every index, the last one too, gets a new thread.
SpawnsThread_Always(k, n) == k < n

\* "if (i < nthreads-1)": the band goes to a new thread.
SpawnsThread(k, n) == k < n - 1

\* Mutant: the function returns without joining.
AfterLoop_NoJoin == "returned"

\* Where the calling thread goes when the loop is over.
AfterLoop == "join"

\* threads.join_all () returns once every thread of the group has finished.
JoinAllReturns(ts) == \A k \in 1..Len(ts) : ts[k].state = "done"

PInit ==
    /\ arg_roi \in ROIs
    /\ arg_nthreads \in -1..MaxThreads
    /\ attr_threads \in 1..MaxAttrThreads
    /\ \E g \in BOOLEAN, s \in Split_X..Split_Biggest :
          /\ splitdir_given = g
          /\ arg_splitdir = IF g THEN s ELSE DefaultSplitDir
    /\ pc = "entry"
    /\ roi = arg_roi
    /\ nthreads = arg_nthreads
    /\ splitdir = arg_splitdir
    /\ roi_begin = 0 /\ roi_end = 0 /\ blocksize = 0 /\ i = 0
    /\ threads = << >>
    /\ calls = << >>
    /\ ran = << >>

\* Lines 95-104: one thread, or a small region: f (roi) in this thread.
SingleThread ==
    /\ UNCHANGED << dvars, ran >>
    /\ pc = "entry"
    /\ LET n == ResolvedThreads(nthreads, attr_threads, roi)
       IN  /\ n <= 1
           /\ nthreads' = n
           /\ calls' = Append(calls, [roi |-> roi, thread |-> 0])
           /\ pc' = "returned"
    /\ UNCHANGED << arg_roi, arg_nthreads, arg_splitdir, splitdir_given,
                    attr_threads, roi, splitdir, roi_begin, roi_end,
                    blocksize, i, threads >>

\* Lines 95-118: the set-up of the banding loop.
SetupSplit ==
    /\ UNCHANGED << dvars, ran >>
    /\ pc = "entry"
    /\ LET n  == ResolvedThreads(nthreads, attr_threads, roi)
           sd == ResolvedSplitDir(splitdir, roi)
           b  == minmax(roi, 2 * sd)
           e  == minmax(roi, 2 * sd + 1)
           n2 == Min(n, e - b)
       IN  /\ n > 1
           /\ splitdir' = sd
           /\ roi_begin' = b
           /\ roi_end' = e
           /\ nthreads' = n2
           /\ blocksize' = BlockSize(e - b, n2)
           /\ i' = 0
           /\ pc' = "loop"
    /\ UNCHANGED << arg_roi, arg_nthreads, arg_splitdir, splitdir_given,
                    attr_threads, roi, threads, calls >>

\* Lines 119-137: a band handed to a new thread, which gets a copy of roi.
SpawnWorker ==
    /\ UNCHANGED dvars
    /\ pc = "loop"
    /\ i < nthreads
    /\ LET band == Band(roi, splitdir, roi_begin, roi_end, blocksize, i)
       IN  /\ ~BandEmpty(band, splitdir)
           /\ SpawnsThread(i, nthreads)
           /\ roi' = band
           /\ threads' = Append(threads, [roi |-> band, state |-> "running"])
           /\ ran' = Append(ran, {})
           /\ calls' = Append(calls, [roi |-> band, thread |-> Len(threads) + 1])
           /\ i' = i + 1
    /\ UNCHANGED << arg_roi, arg_nthreads, arg_splitdir, splitdir_given,
                    attr_threads, pc, nthreads, splitdir, roi_begin, roi_end,
                    blocksize >>

\* Lines 119-139: the band of the last index, run in the calling thread.
RunInCaller ==
    /\ UNCHANGED << dvars, ran >>
    /\ pc = "loop"
    /\ i < nthreads
    /\ LET band == Band(roi, splitdir, roi_begin, roi_end, blocksize, i)
       IN  /\ ~BandEmpty(band, splitdir)
           /\ ~SpawnsThread(i, nthreads)
           /\ roi' = band
           /\ calls' = Append(calls, [roi |-> band, thread |-> 0])
           /\ i' = i + 1
    /\ UNCHANGED << arg_roi, arg_nthreads, arg_splitdir, splitdir_given,
                    attr_threads, pc, nthreads, splitdir, roi_begin, roi_end,
                    blocksize, threads >>

\* Lines 123-124, 128-129, 133-134: "break; // no more work to dole out".
LoopBreak ==
    /\ UNCHANGED << dvars, ran >>
    /\ pc = "loop"
    /\ i < nthreads
    /\ LET band == Band(roi, splitdir, roi_begin, roi_end, blocksize, i)
       IN  /\ BandEmpty(band, splitdir)
           /\ roi' = band
    /\ pc' = AfterLoop
    /\ UNCHANGED << arg_roi, arg_nthreads, arg_splitdir, splitdir_given,
                    attr_threads, nthreads, splitdir, roi_begin, roi_end,
                    blocksize, i, threads, calls >>

\* Line 119: the loop condition i < nthreads fails.
LoopExit ==
    /\ UNCHANGED << dvars, ran >>
    /\ pc = "loop"
    /\ ~(i < nthreads)
    /\ pc' = AfterLoop
    /\ UNCHANGED << arg_roi, arg_nthreads, arg_splitdir, splitdir_given,
                    attr_threads, roi, nthreads, splitdir, roi_begin, roi_end,
                    blocksize, i, threads, calls >>

\* Mutant: the thread is given a reference to the loop's roi, not a copy.
WorkerArg_ByReference(t, cur) == cur

\* "new OIIO::thread (f, roi)": the ROI a thread t passes to f is the copy of
\* roi made when the thread was created, whatever roi (cur) holds by then.
WorkerArg(t, cur) == t.roi

\* A spawned thread runs its f (roi) to the end.
WorkerFinish ==
    /\ UNCHANGED dvars
    /\ \E k \in 1..Len(threads) :
          /\ threads[k].state = "running"
          /\ threads' = [threads EXCEPT ![k].state = "done"]
          /\ ran' = [ran EXCEPT ![k] = {WorkerArg(threads[k], roi)}]
    /\ UNCHANGED << arg_roi, arg_nthreads, arg_splitdir, splitdir_given,
                    attr_threads, pc, roi, nthreads, splitdir, roi_begin,
                    roi_end, blocksize, i, calls >>

\* Lines 141-142: threads.join_all (), then the function returns.
JoinAll ==
    /\ UNCHANGED << dvars, ran >>
    /\ pc = "join"
    /\ JoinAllReturns(threads)
    /\ pc' = "returned"
    /\ UNCHANGED << arg_roi, arg_nthreads, arg_splitdir, splitdir_given,
                    attr_threads, roi, nthreads, splitdir, roi_begin, roi_end,
                    blocksize, i, threads, calls >>

Next ==
    \/ SingleThread
    \/ SetupSplit
    \/ SpawnWorker
    \/ RunInCaller
    \/ LoopBreak
    \/ LoopExit
    \/ WorkerFinish
    \/ JoinAll

\* ------------------------------------------------------------------------
\* ImageBuf, as far as the dispatch macros use it
\* ------------------------------------------------------------------------
\* The basetypes every OIIO_DISPATCH_TYPES* macro has a case for.
ExhaustiveTypes ==
    {"FLOAT", "UINT8", "HALF", "UINT16", "INT8", "INT16", "UINT", "INT", "DOUBLE"}

\* The basetypes every OIIO_DISPATCH_COMMON_TYPES* macro has a case for.
CommonTypes == {"FLOAT", "UINT8", "HALF", "UINT16"}

\* Basetypes no macro has a case for.
OtherTypes == {"UNKNOWN", "UINT64", "INT64"}

BaseTypes == ExhaustiveTypes \cup OtherTypes

\* Mutant: the INT8 case instantiates the unsigned type.
CType_Int8Unsigned(t) ==
    CASE t = "FLOAT" -> "float" [] t = "UINT8" -> "unsigned char"
      [] t = "HALF" -> "half" [] t = "UINT16" -> "unsigned short"
      [] t = "INT8" -> "unsigned char" [] t = "INT16" -> "short"
      [] t = "UINT" -> "unsigned int" [] t = "INT" -> "int"
      [] t = "DOUBLE" -> "double"

\* The C++ type each case label instantiates func with.
CType(t) ==
    CASE t = "FLOAT" -> "float" [] t = "UINT8" -> "unsigned char"
      [] t = "HALF" -> "half" [] t = "UINT16" -> "unsigned short"
      [] t = "INT8" -> "char" [] t = "INT16" -> "short"
      [] t = "UINT" -> "unsigned int" [] t = "INT" -> "int"
      [] t = "DOUBLE" -> "double"

\* The basetype of a C++ pixel type.
BaseTypeOf(c) == CHOOSE t \in ExhaustiveTypes : CType(t) = c

\* An ImageBuf that was only default-constructed.
NoBuf == [init |-> FALSE, type |-> "UNKNOWN", pix |-> << >>, err |-> << >>]

\* Pixel values converted from one storage type to another.  Contents are
\* symbolic: a conversion leaves its mark, so a converted value is never
\* taken for the original.
Convert(p, from, to) == IF from = to THEN p ELSE p \o <<"converted to", to>>

\* ImageBuf::copy (src, format): dst gets src's pixels; format UNKNOWN means
\* "no type requested".  The error state of dst is not touched.
Copy(dst, src, format) ==
    IF ~src.init
    THEN [dst EXCEPT !.init = FALSE, !.type = "UNKNOWN", !.pix = << >>]
    ELSE LET t == IF format # "UNKNOWN" THEN format
                  ELSE IF dst.init THEN dst.type ELSE src.type
         IN  [init |-> TRUE, type |-> t,
              pix |-> Convert(src.pix, src.type, t), err |-> dst.err]

\* ImageBuf::error (msg): the message is added to the pending error text,
\* on a line of its own.
AppendError(err, msg) ==
    IF Len(err) > 0 /\ err[Len(err)] # "NL"
    THEN err \o <<"NL">> \o msg
    ELSE err \o msg

Error(buf, msg) == [buf EXCEPT !.err = AppendError(buf.err, msg)]

\* ImageBuf::geterror ()
GetError(buf) == buf.err

\* "%s: Unsupported pixel data format '%s'", name, type
UnsupportedMsg(name, type) ==
    << name, ": Unsupported pixel data format '", type, "'" >>

\* The pixels func<tp...> computes from its operands.
OutPix(tp, Rb, Ab, Bb) ==
    <<"func">> \o tp \o <<"(">> \o Rb.pix \o <<",">> \o Ab.pix \o <<",">>
        \o Bb.pix \o <<")">>

\* One invocation func<tp...> (Rb, Ab, Bb, ...): on success Rb holds the
\* output, stored in Rb's type; on failure Rb holds the error and, when the
\* kernel had started writing, spoiled pixels.  Rname says which buffer of the
\* expansion Rb is.
Func(tp, Rb, Rname, Ab, Bb) ==
    LET from == BaseTypeOf(tp[1])
        call == [tp |-> tp, Rarg |-> Rname, Rin |-> Rb, Ain |-> Ab, Bin |-> Bb]
        okR  == [init |-> TRUE,
                 type |-> IF Rb.init THEN Rb.type ELSE from,
                 pix  |-> Convert(OutPix(tp, Rb, Ab, Bb), from,
                                  IF Rb.init THEN Rb.type ELSE from),
                 err  |-> Rb.err]
        badR == [Rb EXCEPT !.err = AppendError(Rb.err, func_msg),
                           !.pix = IF func_writes /\ Rb.init
                                   THEN Rb.pix \o <<"partly overwritten">>
                                   ELSE Rb.pix]
    IN  [ret |-> func_ok, R |-> IF func_ok THEN okR ELSE badR,
         tmp |-> NoBuf, fwd |-> << >>, calls |-> <<call>>]

\* The default: of the exhaustive macros.
Unsupported(name, type, Rb) ==
    [ret |-> FALSE, R |-> Error(Rb, UnsupportedMsg(name, type)),
     tmp |-> NoBuf, fwd |-> << >>, calls |-> << >>]

\* ------------------------------------------------------------------------
\* The dispatch macros
\* ------------------------------------------------------------------------
\* OIIO_DISPATCH_TYPES(ret,name,func,type,R,...)
DISPATCH_TYPES(name, type, Rb, Ab, Bb) ==
    IF type \in ExhaustiveTypes
    THEN Func(<<CType(type)>>, Rb, "R", Ab, Bb)
    ELSE Unsupported(name, type, Rb)

\* OIIO_DISPATCH_TYPES2_HELP(ret,name,func,Rtype,Atype,R,...): Rtc is the C++
\* type the outer switch chose.
DISPATCH_TYPES2_HELP(name, Rtc, At, Rb, Ab, Bb) ==
    IF At \in ExhaustiveTypes
    THEN Func(<<Rtc, CType(At)>>, Rb, "R", Ab, Bb)
    ELSE Unsupported(name, At, Rb)

\* OIIO_DISPATCH_TYPES2(ret,name,func,Rtype,Atype,R,...)
DISPATCH_TYPES2(name, Rt, At, Rb, Ab, Bb) ==
    IF Rt \in ExhaustiveTypes
    THEN DISPATCH_TYPES2_HELP(name, CType(Rt), At, Rb, Ab, Bb)
    ELSE Unsupported(name, Rt, Rb)

\* The default: of the destination switch, around the run h of the float
\* case on the temporary: copy back on success, forward the error otherwise.
FallbackResult(Rb, h) ==
    [ret |-> h.ret,
     R |-> IF h.ret THEN Copy(Rb, h.R, "UNKNOWN") ELSE Error(Rb, GetError(h.R)),
     tmp |-> h.R,
     fwd |-> IF h.ret THEN << >> ELSE GetError(h.R),
     calls |-> h.calls]

\* "ImageBuf Rtmp; if ((R).initialized()) Rtmp.copy (R, TypeDesc::FLOAT);"
FloatTemp(Rb) == IF Rb.init THEN Copy(NoBuf, Rb, "FLOAT") ELSE NoBuf

\* OIIO_DISPATCH_COMMON_TYPES(ret,name,func,type,R,...)
DISPATCH_COMMON_TYPES(name, type, Rb, Ab, Bb) ==
    IF type \in CommonTypes
    THEN Func(<<CType(type)>>, Rb, "R", Ab, Bb)
    ELSE FallbackResult(Rb, Func(<<"float">>, FloatTemp(Rb), "Rtmp", Ab, Bb))

\* Mutant: the default: case hands A itself, not its float copy, to func.
DISPATCH_COMMON_TYPES2_HELP_NoCopy(name, Rtc, At, Rb, Rname, Ab, Bb) ==
    IF At \in CommonTypes
    THEN Func(<<Rtc, CType(At)>>, Rb, Rname, Ab, Bb)
    ELSE Func(<<Rtc, "float">>, Rb, Rname, Ab, Bb)

\* OIIO_DISPATCH_COMMON_TYPES2_HELP(ret,name,func,Rtype,Atype,R,A,...)
DISPATCH_COMMON_TYPES2_HELP(name, Rtc, At, Rb, Rname, Ab, Bb) ==
    IF At \in CommonTypes
    THEN Func(<<Rtc, CType(At)>>, Rb, Rname, Ab, Bb)
    ELSE Func(<<Rtc, "float">>, Rb, Rname, Copy(NoBuf, Ab, "FLOAT"), Bb)

\* OIIO_DISPATCH_COMMON_TYPES2(ret,name,func,Rtype,Atype,R,A,...)
DISPATCH_COMMON_TYPES2(name, Rt, At, Rb, Ab, Bb) ==
    IF Rt \in CommonTypes
    THEN DISPATCH_COMMON_TYPES2_HELP(name, CType(Rt), At, Rb, "R", Ab, Bb)
    ELSE FallbackResult(Rb,
            DISPATCH_COMMON_TYPES2_HELP(name, "float", At, FloatTemp(Rb), "Rtmp",
                                        Ab, Bb))

\* OIIO_DISPATCH_COMMON_TYPES3_HELP2(ret,name,func,Rtype,Atype,Btype,R,A,B,...):
\* Atc and Btc are the C++ types the outer switches chose.  The default: case
\* makes Rtmp but runs func on R, then copies Rtmp over R or forwards Rtmp's
\* error.
DISPATCH_COMMON_TYPES3_HELP2(name, Rt, Atc, Btc, Rb, Ab, Bb) ==
    IF Rt \in CommonTypes
    THEN Func(<<CType(Rt), Atc, Btc>>, Rb, "R", Ab, Bb)
    ELSE LET tmp == FloatTemp(Rb)
             r   == Func(<<"float", Atc, Btc>>, Rb, "R", Ab, Bb)
         IN  [ret |-> r.ret,
              R |-> IF r.ret THEN Copy(r.R, tmp, "UNKNOWN")
                    ELSE Error(r.R, GetError(tmp)),
              tmp |-> tmp,
              fwd |-> IF r.ret THEN << >> ELSE GetError(tmp),
              calls |-> r.calls]

\* OIIO_DISPATCH_COMMON_TYPES3_HELP(ret,name,func,Rtype,Atype,Btype,R,A,B,...)
DISPATCH_COMMON_TYPES3_HELP(name, Rt, Atc, Bt, Rb, Ab, Bb) ==
    IF Bt \in CommonTypes
    THEN DISPATCH_COMMON_TYPES3_HELP2(name, Rt, Atc, CType(Bt), Rb, Ab, Bb)
    ELSE DISPATCH_COMMON_TYPES3_HELP2(name, Rt, Atc, "float", Rb, Ab,
                                      Copy(NoBuf, Bb, "FLOAT"))

\* OIIO_DISPATCH_COMMON_TYPES3(ret,name,func,Rtype,Atype,Btype,R,A,B,...)
DISPATCH_COMMON_TYPES3(name, Rt, At, Bt, Rb, Ab, Bb) ==
    IF At \in CommonTypes
    THEN DISPATCH_COMMON_TYPES3_HELP(name, Rt, CType(At), Bt, Rb, Ab, Bb)
    ELSE DISPATCH_COMMON_TYPES3_HELP(name, Rt, "float", Bt, Rb,
                                     Copy(NoBuf, Ab, "FLOAT"), Bb)

\* ------------------------------------------------------------------------
\* A caller expanding one of the macros
\* ------------------------------------------------------------------------
\* The name argument the caller passes.
OpName == "op"

\* Errors already pending on the destination when the macro is entered.
PriorErrors == { << >>, <<"earlier error">> }

\* Errors a failing specialization records on its destination.
FuncMsgs == { <<"bad kernel">>, <<"out of range", "NL">> }

Macros1 == {"TYPES", "COMMON_TYPES"}
Macros2 == {"TYPES2", "COMMON_TYPES2"}
Macros3 == {"COMMON_TYPES3"}

\* A source image: initialized, of the given type.
SrcBuf(t, p) == [init |-> TRUE, type |-> t, pix |-> <<p>>, err |-> << >>]

\* A destination: allocated with some type, or not yet allocated.
DstBufs ==
    { [init |-> TRUE, type |-> t, pix |-> <<"r0">>, err |-> e] :
        t \in BaseTypes \ {"UNKNOWN"}, e \in PriorErrors }
    \cup { [NoBuf EXCEPT !.err = e] : e \in PriorErrors }

DInit ==
    /\ dpc = "call"
    /\ macro \in Macros1 \cup Macros2 \cup Macros3
    /\ R \in DstBufs
    /\ R0 = R
    /\ Rtype = R.type
    /\ Atype \in IF macro \in Macros1 THEN {"UNKNOWN"} ELSE BaseTypes
    /\ Btype \in IF macro \in Macros3 THEN BaseTypes ELSE {"UNKNOWN"}
    /\ A = IF macro \in Macros1 THEN NoBuf ELSE SrcBuf(Atype, "a0")
    /\ B = IF macro \in Macros3 THEN SrcBuf(Btype, "b0") ELSE NoBuf
    /\ func_ok \in BOOLEAN
    /\ func_writes \in IF func_ok THEN {FALSE} ELSE BOOLEAN
    /\ func_msg \in IF func_ok THEN {<< >>} ELSE FuncMsgs
    /\ ret = FALSE
    /\ Rtmp = NoBuf
    /\ forwarded = << >>
    /\ dcalls = << >>

\* The state after the expansion x of a macro has run.
Expanded(x) ==
    /\ dpc = "call"
    /\ dpc' = "done"
    /\ ret' = x.ret
    /\ R' = x.R
    /\ Rtmp' = x.tmp
    /\ forwarded' = x.fwd
    /\ dcalls' = x.calls
    /\ UNCHANGED << macro, Rtype, Atype, Btype, A, B, R0, func_ok,
                    func_writes, func_msg >>
    /\ UNCHANGED pvars

DispatchTypes ==
    /\ macro = "TYPES"
    /\ Expanded(DISPATCH_TYPES(OpName, Rtype, R, A, B))

DispatchTypes2 ==
    /\ macro = "TYPES2"
    /\ Expanded(DISPATCH_TYPES2(OpName, Rtype, Atype, R, A, B))

DispatchCommonTypes ==
    /\ macro = "COMMON_TYPES"
    /\ Expanded(DISPATCH_COMMON_TYPES(OpName, Rtype, R, A, B))

DispatchCommonTypes2 ==
    /\ macro = "COMMON_TYPES2"
    /\ Expanded(DISPATCH_COMMON_TYPES2(OpName, Rtype, Atype, R, A, B))

DispatchCommonTypes3 ==
    /\ macro = "COMMON_TYPES3"
    /\ Expanded(DISPATCH_COMMON_TYPES3(OpName, Rtype, Atype, Btype, R, A, B))

DNext ==
    \/ DispatchTypes
    \/ DispatchTypes2
    \/ DispatchCommonTypes
    \/ DispatchCommonTypes2
    \/ DispatchCommonTypes3

\* The dispatch variables while parallel_image is explored.
DIdle ==
    /\ dpc = "done" /\ macro = "none"
    /\ Rtype = "UNKNOWN" /\ Atype = "UNKNOWN" /\ Btype = "UNKNOWN"
    /\ R = NoBuf /\ A = NoBuf /\ B = NoBuf /\ R0 = NoBuf /\ Rtmp = NoBuf
    /\ func_ok = TRUE /\ func_writes = FALSE /\ func_msg = << >>
    /\ ret = FALSE /\ forwarded = << >> /\ dcalls = << >>

\* The parallel_image variables while the dispatch macros are explored.
PIdle ==
    /\ arg_roi = CHOOSE r \in ROIs : npixels(r) = 0
    /\ arg_nthreads = 1 /\ attr_threads = 1
    /\ arg_splitdir = DefaultSplitDir /\ splitdir_given = FALSE
    /\ pc = "idle" /\ roi = arg_roi /\ nthreads = 1 /\ splitdir = arg_splitdir
    /\ roi_begin = 0 /\ roi_end = 0 /\ blocksize = 0 /\ i = 0
    /\ threads = << >> /\ calls = << >> /\ ran = << >>

Init == PInit /\ DIdle
Spec == Init /\ [][Next]_vars

DispatchInit == DInit /\ PIdle
DispatchSpec == DispatchInit /\ [][DNext]_vars

\* ------------------------------------------------------------------------
\* Properties of parallel_image
\* ------------------------------------------------------------------------
Lo(r, a) == minmax(r, 2 * a)
Hi(r, a) == minmax(r, 2 * a + 1)

\* r and q agree on the two axes other than a and on the channel range.
SameOffAxis(r, q, a) ==
    /\ \A b \in (Split_X..Split_Z) \ {a} : Lo(r, b) = Lo(q, b) /\ Hi(r, b) = Hi(q, b)
    /\ r.chbegin = q.chbegin /\ r.chend = q.chend

RECURSIVE SumLen(_, _, _)
SumLen(cs, a, k) ==
    IF k = 0 THEN 0 ELSE SumLen(cs, a, k - 1) + (Hi(cs[k].roi, a) - Lo(cs[k].roi, a))

\* The split axis of the call: the one asked for or, for Split_Biggest, chosen.
SplitAxis == ResolvedSplitDir(arg_splitdir, arg_roi)

\* The invocations tile arg_roi along axis a: each lies inside arg_roi, equals
\* it off the axis, no two overlap, and their lengths add up to arg_roi's.
ExactCover(a) ==
    /\ \A k \in 1..Len(calls) :
          /\ SameOffAxis(calls[k].roi, arg_roi, a)
          /\ Lo(arg_roi, a) <= Lo(calls[k].roi, a)
          /\ Lo(calls[k].roi, a) <= Hi(calls[k].roi, a)
          /\ Hi(calls[k].roi, a) <= Hi(arg_roi, a)
    /\ \A k, l \in 1..Len(calls) :
          k # l => \/ Hi(calls[k].roi, a) <= Lo(calls[l].roi, a)
                   \/ Hi(calls[l].roi, a) <= Lo(calls[k].roi, a)
    /\ SumLen(calls, a, Len(calls)) = Hi(arg_roi, a) - Lo(arg_roi, a)

\* C1: when parallel_image has returned, the ROIs it passed to f are pairwise
\* disjoint along the split axis and their union is the input ROI on every
\* axis: every pixel is covered by exactly one invocation.
C1_BandsTileRoi == pc = "returned" => ExactCover(SplitAxis)

\* C1 witness: a ragged split (5 rows, 4 threads, 3 bands) has returned.
C1_Witness ==
    /\ pc = "returned" /\ Len(calls) = 3 /\ nthreads = 4
    /\ roi_end - roi_begin = 5 /\ roi_begin # 0

\* C2: when parallel_image has returned, no thread it created is still
\* running (join_all is a full barrier), whatever order the bands finish in.
C2_JoinBarrier ==
    pc = "returned" => \A k \in 1..Len(threads) : threads[k].state = "done"

\* C2 witness: a call that created three threads has returned.
C2_Witness == pc = "returned" /\ Len(threads) = 3

Min3(a, b, c) == Min(a, Min(b, c))
ThreadsOrDefault == IF arg_nthreads <= 0 THEN attr_threads ELSE arg_nthreads
SplitExtent == Hi(arg_roi, SplitAxis) - Lo(arg_roi, SplitAxis)
ClaimedThreads ==
    Min3(ThreadsOrDefault, 1 + (npixels(arg_roi) \div MinPixelsPerThread), SplitExtent)

\* C3 as stated: the thread count computed equals
\* min(T_or_default, 1 + floor(P/16384), extent along the split axis) and is >= 1.
C3_Original ==
    pc = "returned" => nthreads = ClaimedThreads /\ nthreads >= 1

\* C3 amended: the thread count computed equals
\* max(1, min(T_or_default, 1 + floor(P/16384), extent along the split axis)):
\* a ROI of extent 0 along the split axis gets 1 thread, not 0; it is always >= 1.
C3_ThreadCount ==
    pc = "returned" => nthreads = Max(1, ClaimedThreads) /\ nthreads >= 1

\* C3 witness: a call asking for 4 threads on a ROI of extent 0 along the
\* split axis has returned, with a thread count of 1.
C3_Witness ==
    /\ pc = "returned" /\ SplitExtent = 0 /\ nthreads = 1 /\ arg_nthreads = 4

\* C4: when the resolved thread count is 1, f is invoked exactly once, in the
\* calling thread, on the original ROI, and no thread is created.
C4_SingleThread ==
    (pc \in {"loop", "join", "returned"} /\ nthreads = 1) =>
        /\ threads = << >>
        /\ Len(calls) <= 1
        /\ \A k \in 1..Len(calls) : calls[k] = [roi |-> arg_roi, thread |-> 0]
        /\ (pc = "returned" => Len(calls) = 1)

\* C4 witness: a call capped to 1 by an extent of 1 along the split axis only
\* (it went through the banding loop) has returned.
C4_Witness ==
    /\ pc = "returned" /\ nthreads = 1 /\ i = 1
    /\ npixels(arg_roi) >= MinPixelsPerThread /\ arg_nthreads > 1

\* C5: the last band handed out runs in the calling thread, also when the
\* loop stops before reaching the computed thread count.
C5_LastBandInCaller ==
    pc = "returned" => calls[Len(calls)].thread = 0

\* The axes along which the first two invocations differ.
ObservedSplitAxes ==
    { a \in Split_X..Split_Z :
        Lo(calls[1].roi, a) # Lo(calls[2].roi, a) \/ Hi(calls[1].roi, a) # Hi(calls[2].roi, a) }

LongestEdge == IF width(arg_roi) > height(arg_roi) THEN Split_X ELSE Split_Y

\* C6 as stated: a caller that does not specify the split axis gets x if the
\* ROI is wider than tall and y otherwise.
C6_Original ==
    (Len(calls) > 1 /\ ~splitdir_given) => ObservedSplitAxes = {LongestEdge}

\* C6 amended: the longest-edge rule (x if wider than tall, else y, ties to y)
\* applies when the caller passes Split_Biggest; a caller that omits the
\* argument gets the default Split_Y; z is split only on an explicit Split_Z.
C6_SplitAxis ==
    Len(calls) > 1 =>
        /\ (splitdir_given /\ arg_splitdir = Split_Biggest)
              => ObservedSplitAxes = {LongestEdge}
        /\ ~splitdir_given => ObservedSplitAxes = {Split_Y}
        /\ ObservedSplitAxes = {Split_Z}
              => (splitdir_given /\ arg_splitdir = Split_Z)

\* C6 witness: Split_Biggest on a square ROI (the tie) split along y.
C6_Witness ==
    /\ Len(calls) > 1 /\ splitdir_given /\ arg_splitdir = Split_Biggest
    /\ width(arg_roi) = height(arg_roi) /\ ObservedSplitAxes = {Split_Y}

\* The call went past the single-thread return of lines 100-104.
OnSplitPath ==
    /\ pc \in {"loop", "join", "returned"}
    /\ Min(ThreadsOrDefault, 1 + (npixels(arg_roi) \div MinPixelsPerThread)) > 1

\* C11: on the multi-band path, with capped thread count N and split-axis
\* range [b, e) of length L, the block size B is ceil(L / N), the i-th band
\* invoked (i = 0, 1, ...) has the split-axis range
\* [b + i*B, min(b + (i+1)*B, e)), is not empty, and equals the original ROI
\* on the other two axes and the channel range.
C11_BandRanges ==
    OnSplitPath =>
        LET a == SplitAxis
            b == Lo(arg_roi, a)
            e == Hi(arg_roi, a)
        IN  /\ blocksize * nthreads >= e - b
            /\ (blocksize - 1) * nthreads < e - b
            /\ \A k \in 1..Len(calls) :
                  /\ Lo(calls[k].roi, a) = b + (k - 1) * blocksize
                  /\ Hi(calls[k].roi, a) = Min(b + k * blocksize, e)
                  /\ Lo(calls[k].roi, a) < Hi(calls[k].roi, a)
                  /\ SameOffAxis(calls[k].roi, arg_roi, a)

\* C11 witness: 5 columns split along x for 4 threads: 3 bands, the last one
\* clamped to the end of the ROI.
C11_Witness ==
    /\ pc = "returned" /\ splitdir = Split_X /\ nthreads = 4
    /\ Len(calls) = 3 /\ width(calls[3].roi) = 1 /\ arg_roi.xbegin # 0

\* C12: with capped thread count N, f is invoked at most N times and, once
\* the call has returned, at least once; at most N - 1 threads are created,
\* and at most the requested (or default) count minus 1; none when N <= 1.
C12_CallAndThreadCounts ==
    pc \in {"loop", "join", "returned"} =>
        /\ Len(calls) <= nthreads
        /\ Len(threads) <= nthreads - 1
        /\ Len(threads) <= ThreadsOrDefault - 1
        /\ nthreads <= 1 => Len(threads) = 0
        /\ pc = "returned" => Len(calls) >= 1

\* C12 witness: a call with N = 4 that used all of it: 4 invocations, 3 threads.
C12_Witness ==
    /\ pc = "returned" /\ nthreads = 4 /\ Len(calls) = 4 /\ Len(threads) = 3

\* C13: every spawned worker runs f on the band that was computed when it
\* was spawned (the k-th thread on the k-th band handed out), however the
\* loop's later overwrites of roi interleave with the workers.
C13_WorkerKeepsItsBand ==
    \A k \in 1..Len(threads) :
        /\ calls[k].thread = k
        /\ threads[k].state = "running" => ran[k] = {}
        /\ threads[k].state = "done" => ran[k] = {calls[k].roi}

\* C13 witness: the first worker has run, on a band other than the one roi
\* holds by now, while a later worker is still running.
C13_Witness ==
    /\ Len(threads) = 3
    /\ threads[1].state = "done" /\ threads[3].state = "running"
    /\ ran[1] = {calls[1].roi} /\ roi = calls[3].roi /\ roi # calls[1].roi

\* ------------------------------------------------------------------------
\* Properties of the dispatch macros
\* ------------------------------------------------------------------------
\* The specialization each type tag stands for.
ExpectedCType ==
    [ t \in ExhaustiveTypes |->
        CASE t = "FLOAT" -> "float" [] t = "UINT8" -> "unsigned char"
          [] t = "HALF" -> "half" [] t = "UINT16" -> "unsigned short"
          [] t = "INT8" -> "char" [] t = "INT16" -> "short"
          [] t = "UINT" -> "unsigned int" [] t = "INT" -> "int"
          [] t = "DOUBLE" -> "double" ]

\* The tags the expanded macro switches on, destination first.
DispatchedTags ==
    IF macro \in Macros1 THEN <<Rtype>>
    ELSE IF macro \in Macros2 THEN <<Rtype, Atype>>
    ELSE <<Rtype, Atype, Btype>>

IsExhaustive == macro \in {"TYPES", "TYPES2"}
IsCommon == macro \in {"COMMON_TYPES", "COMMON_TYPES2", "COMMON_TYPES3"}

AllSupported == \A k \in 1..Len(DispatchedTags) : DispatchedTags[k] \in ExhaustiveTypes

\* The first dispatched tag, in switch order, that has no case.
Offending ==
    DispatchedTags[CHOOSE k \in 1..Len(DispatchedTags) :
                      /\ DispatchedTags[k] \notin ExhaustiveTypes
                      /\ \A j \in 1..(k - 1) : DispatchedTags[j] \in ExhaustiveTypes]

\* C7: exhaustive dispatch.  With every dispatched tag among the nine
\* supported ones, exactly the specialization for those tags is invoked, once,
\* directly on the destination and the unconverted source, and its result is
\* returned; with any other tag on an axis, nothing is invoked, the result is
\* failure and an error naming the operation and the offending type is
\* recorded on the destination.
C7_ExhaustiveDispatch ==
    (dpc = "done" /\ IsExhaustive) =>
        IF AllSupported
        THEN /\ Len(dcalls) = 1
             /\ dcalls[1].tp = [k \in 1..Len(DispatchedTags) |->
                                   ExpectedCType[DispatchedTags[k]]]
             /\ dcalls[1].Rarg = "R"
             /\ dcalls[1].Rin = R0
             /\ dcalls[1].Ain = A
             /\ Rtmp = NoBuf
             /\ ret = func_ok
        ELSE /\ dcalls = << >>
             /\ ret = FALSE
             /\ R = [R0 EXCEPT !.err =
                       AppendError(R0.err,
                           <<OpName, ": Unsupported pixel data format '",
                             Offending, "'">>)]

\* C7 witness: the two-operand macro ran the <char, double> specialization.
C7_Witness ==
    /\ dpc = "done" /\ macro = "TYPES2" /\ Rtype = "INT8" /\ Atype = "DOUBLE"
    /\ Len(dcalls) = 1 /\ ret

\* The float copy the fallback makes of a buffer.
FloatCopyOf(b) ==
    IF ~b.init THEN NoBuf
    ELSE [init |-> TRUE, type |-> "FLOAT",
          pix |-> IF b.type = "FLOAT" THEN b.pix
                  ELSE b.pix \o <<"converted to", "FLOAT">>,
          err |-> << >>]

\* The statement of C8 for the macros in ms.
CommonContent(ms) ==
    (dpc = "done" /\ macro \in ms) =>
        /\ Len(dcalls) = 1
        /\ Rtype \in CommonTypes =>
              /\ dcalls[1].tp[1] = ExpectedCType[Rtype]
              /\ dcalls[1].Rarg = "R"
              /\ dcalls[1].Rin = R0
        /\ (Rtype \notin CommonTypes /\ ret) =>
              /\ dcalls[1].tp[1] = "float"
              /\ dcalls[1].Rin = FloatCopyOf(R0)
              /\ R.init
              /\ R.pix = Convert(OutPix(dcalls[1].tp, dcalls[1].Rin,
                                        dcalls[1].Ain, dcalls[1].Bin),
                                 "FLOAT", R.type)

\* C8: common-type dispatch with one, two or three operands.  A destination of
\* type FLOAT, UINT8, HALF or UINT16 gets the matching specialization run
\* directly on it; a destination of any other type, when the float
\* specialization succeeds, ends up holding the output the float
\* specialization produced on a float copy of it, converted back.
C8_CommonContent == CommonContent({"COMMON_TYPES", "COMMON_TYPES2", "COMMON_TYPES3"})

\* The statement of C9 for the macros in ms.
FallbackError(ms) ==
    (dpc = "done" /\ macro \in ms /\ Rtype \notin CommonTypes) =>
        /\ Len(dcalls) = 1
        /\ dcalls[1].tp[1] = "float"
        /\ ret = func_ok
        /\ ~ret => /\ forwarded = func_msg
                   /\ R.err = AppendError(R0.err, func_msg)

\* C9: the common-type fallback fails exactly when the float specialization
\* it ran failed, and then the error recorded on the caller's destination is
\* the specialization's error, forwarded verbatim; for the one-, two- and
\* three-operand macros.
C9_FallbackError == FallbackError({"COMMON_TYPES", "COMMON_TYPES2", "COMMON_TYPES3"})

\* The type parameter the claim gives an axis of tag t.
AxisType(t) == IF t \in CommonTypes THEN ExpectedCType[t] ELSE "float"

\* C10: two- and three-operand common-type dispatch invokes exactly one
\* specialization; its type parameter on each axis is the axis's own type for
\* FLOAT, UINT8, HALF, UINT16 and float otherwise, whatever the other axes
\* are; a source operand on a fallen-back axis is a float copy of the source.
C10_AxesIndependent ==
    (dpc = "done" /\ macro \in {"COMMON_TYPES2", "COMMON_TYPES3"}) =>
        /\ Len(dcalls) = 1
        /\ dcalls[1].tp = [k \in 1..Len(DispatchedTags) |->
                              AxisType(DispatchedTags[k])]
        /\ dcalls[1].Ain = IF Atype \in CommonTypes THEN A ELSE FloatCopyOf(A)
        /\ macro = "COMMON_TYPES3" =>
              dcalls[1].Bin = IF Btype \in CommonTypes THEN B ELSE FloatCopyOf(B)

\* C10 witness: three operands, the destination and B fall back, A does not.
C10_Witness ==
    /\ dpc = "done" /\ macro = "COMMON_TYPES3"
    /\ Rtype = "INT16" /\ Atype = "HALF" /\ Btype = "DOUBLE"
    /\ Len(dcalls) = 1 /\ dcalls[1].tp = <<"float", "half", "float">>
    /\ dcalls[1].Bin.type = "FLOAT" /\ dcalls[1].Ain = A

\* The statements of C8 and C9 for the one- and two-operand macros alone.
CommonContent12 == CommonContent({"COMMON_TYPES", "COMMON_TYPES2"})
FallbackError12 == FallbackError({"COMMON_TYPES", "COMMON_TYPES2"})

\* The statement of C14 for the macros in ms.
FailureLeavesDst(ms) ==
    (dpc = "done" /\ macro \in ms /\ Rtype \notin CommonTypes /\ ~ret) =>
        /\ Len(dcalls) = 1
        /\ dcalls[1].tp[1] = "float"
        /\ dcalls[1].Rarg = "Rtmp"
        /\ R.init = R0.init
        /\ R.type = R0.type
        /\ R.pix = R0.pix

\* C14: when the common-type fallback is taken for the destination and the
\* float specialization fails, the destination's pixels and storage type are
\* as they were before the dispatch and only its error state changed, the
\* specialization having written to the temporary float copy only; for the
\* one-, two- and three-operand macros.
C14_FailureLeavesDst ==
    FailureLeavesDst({"COMMON_TYPES", "COMMON_TYPES2", "COMMON_TYPES3"})

\* The statement of C14 for the one- and two-operand macros alone.
FailureLeavesDst12 == FailureLeavesDst({"COMMON_TYPES", "COMMON_TYPES2"})

====
